---- MODULE Spec2Model ----
(***************************************************************************)
(* Model of evaluateFhirpathAsync (fongsean/fhirpathjs-async-poc): the     *)
(* collect-then-resolve-then-replay driver around the synchronous          *)
(* fhirpath evaluator, its two interceptable functions resolve() and       *)
(* memberOf(), and the adapters resolveAsync / memberOfAsync.              *)
(*                                                                         *)
(* The evaluator (fhirpath.evaluate) and the remote services behind fetch  *)
(* are outside the repository: a pass invokes the handlers on any bounded  *)
(* sequence of input elements and may raise an error, and every answer a   *)
(* server can give is a nondeterministic choice.                           *)
(***************************************************************************)
EXTENDS Integers, Sequences, FiniteSets, TLC

----------------------------------------------------------------------------
(* Bounds of the model *)

\* the largest number of input elements the handlers see in one pass
MaxSites == 2

\* the bound of the do/while loop
MaxIterations == 10

----------------------------------------------------------------------------
(* JavaScript values *)

\* an optional value: <<>> is undefined, <<v>> is v
None == <<>>

Some(v) == <<v>>

\* a string argument
Str(s) == [t |-> "string", s |-> s, reference |-> None, system |-> None,
           code |-> None, coding |-> None]

\* an object argument (Reference, Coding, CodeableConcept) with the fields it has
Obj(reference, system, code, coding) ==
    [t |-> "object", s |-> "", reference |-> reference, system |-> system,
     code |-> code, coding |-> coding]

\* JavaScript truthiness of an optional string
Truthy(o) == o # None /\ o[1] # ""

\* string conversion in a concatenation: undefined prints as "undefined"
JsStr(o) == IF o = None THEN "undefined" ELSE o[1]

\* cc.coding.map((c) => c.system + "|" + c.code).join(",")
RECURSIVE JoinCodings(_)
JoinCodings(cs) ==
    IF cs = <<>> THEN ""
    ELSE JsStr(cs[1].system) \o "|" \o JsStr(cs[1].code)
         \o (IF Len(cs) = 1 THEN "" ELSE "," \o JoinCodings(Tail(cs)))

----------------------------------------------------------------------------
(* Fingerprints *)

createIndexKeyResolve(value) ==
    IF value.t = "string" THEN Some(value.s) ELSE value.reference

createIndexKeyMemberOf(value, valueset) ==
    IF value.t = "string" THEN Some(value.s \o " - " \o valueset)
    ELSE IF Truthy(value.code)
         THEN Some(JsStr(value.system) \o "|" \o value.code[1] \o " - " \o valueset)
    ELSE IF value.coding # None
         THEN Some(JoinCodings(value.coding[1]) \o " - " \o valueset)
    ELSE None

\* registry keys without the adapter's prefix
HandlerKeyNoPrefix(call) ==
    IF call.fn = "resolve"
    THEN LET key == createIndexKeyResolve(call.value)
         IN  IF Truthy(key) THEN key ELSE None
    ELSE LET key == createIndexKeyMemberOf(call.value, call.valueSet)
         IN  IF Truthy(key) THEN key ELSE None

\* the registry key of a call: the fingerprint with the adapter's prefix,
\* or None when the arguments give no (truthy) fingerprint
HandlerKey(call) ==
    IF call.fn = "resolve"
    THEN LET key == createIndexKeyResolve(call.value)
         IN  IF Truthy(key) THEN Some("Resolve:" \o key[1]) ELSE None
    ELSE LET key == createIndexKeyMemberOf(call.value, call.valueSet)
         IN  IF Truthy(key) THEN Some("MemberOf:" \o key[1]) ELSE None

----------------------------------------------------------------------------
(* The inputs of the model *)

\* one input element handed to an interceptable function
ResolveCalls ==
    { [fn |-> "resolve", value |-> v, valueSet |-> ""] :
        v \in { Str("urlA"),
                Obj(Some("urlA"), None, None, None) } }

MemberOfCalls ==
    { [fn |-> "memberOf", value |-> v, valueSet |-> "VS1"] :
        v \in { Obj(None, Some("S"), Some("M"), None),
                Obj(None, None, None, None) } }

Calls == ResolveCalls \cup MemberOfCalls

\* one coding of a CodeableConcept
Coding(system, code) == [system |-> Some(system), code |-> Some(code)]

\* the elements memberOf() is applied to when its fingerprint is studied:
\* code strings, Codings with and without system, CodeableConcepts with one
\* and two codings, and objects that are none of the three declared shapes
MemberOfValues ==
    { Str("M"), Str("S|M"), Str("M - VS1"),
      Obj(None, Some("S"), Some("M"), None),
      Obj(None, Some("S"), Some("N"), None),
      Obj(None, None, Some("M"), None),
      Obj(None, None, None, Some(<< Coding("S", "M") >>)),
      Obj(None, None, None, Some(<< Coding("S", "M"), Coding("S", "N") >>)),
      Obj(None, None, None, None),
      Obj(None, Some("S"), Some("M"), Some(<< Coding("S", "N") >>)) }

\* the value set urls given to memberOf()
ValueSets == { "VS1", "VS2", "VS1 - VS2" }

\* the calls whose registry keys are compared with each other
KeyCalls ==
    { [fn |-> "memberOf", value |-> v, valueSet |-> vs] :
        v \in MemberOfValues, vs \in ValueSets }
    \cup
    { [fn |-> "resolve", value |-> v, valueSet |-> ""] :
        v \in { Str("urlA"), Str("M - VS1"), Obj(Some("urlA"), None, None, None) } }

\* the registry keys of the calls of the model, computed once
KeyTable == [c \in Calls \cup KeyCalls |-> HandlerKey(c)]

MapKey(call) == KeyTable[call]

\* what the evaluator returns besides the values of the interceptable calls
DirectOutput == <<"John">>

\* how a pass ends: normally, with an error that has a message, or with one
\* that has none
Throws == { "none", "message", "nomessage" }

RECURSIVE SeqsUpTo(_, _)
SeqsUpTo(S, n) ==
    IF n = 0 THEN { <<>> }
    ELSE LET shorter == SeqsUpTo(S, n - 1)
         IN  shorter \cup { Append(q, x) : q \in { r \in shorter : Len(r) = n - 1 }, x \in S }

SiteSeqs == SeqsUpTo(Calls, MaxSites)

----------------------------------------------------------------------------
(* The registry: a Map<string, AsyncFunctionUserData>, kept in insertion   *)
(* order as a sequence of entries                                          *)

MapHas(m, k) == \E i \in 1..Len(m) : m[i].key = k

MapIndex(m, k) == CHOOSE i \in 1..Len(m) : m[i].key = k

\* Map.get: the details stored under k, or undefined
MapGet(m, k) == IF MapHas(m, k) THEN Some(m[MapIndex(m, k)].details) ELSE None

\* a store that appends an entry on every set, as an array would
MapSetPush(m, k, d) == Append(m, [key |-> k, details |-> d])

\* Map.set: replaces the value of an existing key in place, appends a new key
MapSet(m, k, d) ==
    IF MapHas(m, k)
    THEN [m EXCEPT ![MapIndex(m, k)] = [key |-> k, details |-> d]]
    ELSE Append(m, [key |-> k, details |-> d])

MapKeys(m) == { m[i].key : i \in 1..Len(m) }

\* the details a handler stores for a call it cannot answer
NewDetails(call) ==
    [evaluationCompleted |-> FALSE,
     asyncFunction |-> IF call.fn = "resolve" THEN "resolveAsync" ELSE "memberOfAsync",
     value |-> call.value,
     valueSet |-> call.valueSet,
     result |-> None]

----------------------------------------------------------------------------
(* The interceptable functions, one input element at a time *)

\* asyncCallsRequired.get(key)?.evaluationCompleted
IsCompleted(m, k) == MapHas(m, k) /\ m[MapIndex(m, k)].details.evaluationCompleted

\* a handler that registers the element without looking at its record
HandlerAlwaysRegister(call, m) ==
    IF MapKey(call) = None
    THEN [map |-> m, ret |-> None, req |-> FALSE]
    ELSE [map |-> MapSet(m, MapKey(call)[1], NewDetails(call)), ret |-> None, req |-> TRUE]

\* a handler that takes a record as answered only when it holds a result
HandlerByResult(call, m) ==
    IF MapKey(call) = None
    THEN [map |-> m, ret |-> None, req |-> FALSE]
    ELSE LET key == MapKey(call)[1]
         IN  IF MapHas(m, key) /\ m[MapIndex(m, key)].details.result # None
             THEN [map |-> m, ret |-> m[MapIndex(m, key)].details.result, req |-> FALSE]
             ELSE [map |-> MapSet(m, key, NewDetails(call)), ret |-> None, req |-> TRUE]

\* a handler without the test of the key: an element without fingerprint is
\* registered under the text of the absent key
HandlerNoKeyTest(call, m) ==
    LET key == IF MapKey(call) = None
               THEN (IF call.fn = "resolve" THEN "Resolve:" ELSE "MemberOf:") \o "undefined"
               ELSE MapKey(call)[1]
    IN  IF IsCompleted(m, key)
        THEN [map |-> m, ret |-> m[MapIndex(m, key)].details.result, req |-> FALSE]
        ELSE [map |-> MapSet(m, key, NewDetails(call)), ret |-> None, req |-> TRUE]

\* userInvocationTable.resolve / memberOf applied to one element: the map
\* after the call, the value returned for the element and whether the call
\* set requiresAsyncProcessing
Handler(call, m) ==
    LET key == MapKey(call)
    IN  IF key = None
        THEN [map |-> m, ret |-> None, req |-> FALSE]
        ELSE IF IsCompleted(m, key[1])
             THEN [map |-> m, ret |-> m[MapIndex(m, key[1])].details.result, req |-> FALSE]
             ELSE [map |-> MapSet(m, key[1], NewDetails(call)), ret |-> None, req |-> TRUE]

\* the handlers of one pass, in the evaluator's order
RECURSIVE RunHandlers(_, _)
RunHandlers(sites, st) ==
    IF sites = <<>> THEN st
    ELSE LET h == Handler(Head(sites), st.map)
         IN  RunHandlers(Tail(sites),
                         [map |-> h.map,
                          rets |-> Append(st.rets, h.ret),
                          req |-> st.req \/ h.req])

\* .filter((v) => v !== undefined): the values the handlers contribute
RECURSIVE Defined(_)
Defined(rets) ==
    IF rets = <<>> THEN <<>>
    ELSE (IF Head(rets) = None THEN <<>> ELSE <<Head(rets)[1]>>) \o Defined(Tail(rets))

----------------------------------------------------------------------------
(* The adapters *)

\* CreateOperationOutcome(severity, code, message)
CreateOperationOutcome(severity, code, text) ==
    [severity |-> severity, code |-> code, text |-> text]

\* what the server behind resolveAsync can do: answer with JSON, or fail
\* (fetch rejects, or the body is not JSON)
ResolveResponses == { "json", "reject" }

\* what the server behind memberOfAsync can do: fail, or answer with a JSON
\* document that may hold a 'result' parameter (whose valueBoolean may be
\* missing) and may hold an 'issue' list
MemberOfResponses ==
    { [kind |-> "reject", hasResult |-> FALSE, valueBoolean |-> None, hasIssue |-> FALSE] }
    \cup { [kind |-> "json", hasResult |-> TRUE, valueBoolean |-> v, hasIssue |-> i] :
             v \in { Some("true"), None }, i \in BOOLEAN }
    \cup { [kind |-> "json", hasResult |-> FALSE, valueBoolean |-> None, hasIssue |-> i] :
             i \in BOOLEAN }

\* resolveAsync: the details after the call and the outcome it throws, if any
resolveAsync(details, resp) ==
    LET URL == createIndexKeyResolve(details.value)
    IN  IF ~Truthy(URL)
        THEN [details |-> details, thrown |-> None]
        ELSE IF resp = "json"
             THEN [details |-> [details EXCEPT !.result = Some("resource of " \o URL[1]),
                                               !.evaluationCompleted = TRUE],
                   thrown |-> None]
             ELSE [details |-> [details EXCEPT !.result = None,
                                               !.evaluationCompleted = TRUE],
                   thrown |-> Some(CreateOperationOutcome("error", "exception",
                                      "Failed to resolve reference: " \o URL[1]))]

\* a request that sends the first coding of a CodeableConcept as a Coding
MemberOfRequestFirstCoding(details) ==
    IF details.value.t = "string"
    THEN Some([method |-> "GET", url |-> details.valueSet, system |-> None,
               code |-> Some(details.value.s), codeableConcept |-> None])
    ELSE IF Truthy(details.value.code)
    THEN Some([method |-> "GET", url |-> details.valueSet,
               system |-> Some(JsStr(details.value.system)),
               code |-> details.value.code, codeableConcept |-> None])
    ELSE IF details.value.coding # None /\ details.value.coding[1] # <<>>
    THEN Some([method |-> "GET", url |-> details.valueSet,
               system |-> Some(JsStr(details.value.coding[1][1].system)),
               code |-> details.value.coding[1][1].code, codeableConcept |-> None])
    ELSE None

\* the request memberOfAsync issues for the stored value, if any
MemberOfRequest(details) ==
    IF details.value.coding # None
    THEN Some([method |-> "POST", url |-> details.valueSet, system |-> None,
               code |-> None, codeableConcept |-> details.value.coding])
    ELSE IF details.value.t = "string"
    THEN Some([method |-> "GET", url |-> details.valueSet, system |-> None,
               code |-> Some(details.value.s), codeableConcept |-> None])
    ELSE IF Truthy(details.value.code)
    THEN Some([method |-> "GET", url |-> details.valueSet,
               system |-> Some(IF details.value.system = None THEN ""
                               ELSE details.value.system[1]),
               code |-> details.value.code, codeableConcept |-> None])
    ELSE None

\* a memberOfAsync whose outcome does not name the membership key
memberOfAsyncGeneric(details, resp) ==
    LET failed == CreateOperationOutcome("error", "exception", "Failed to check membership")
        withResult == IF resp.hasResult
                      THEN [details EXCEPT !.evaluationCompleted = TRUE,
                                           !.result = resp.valueBoolean]
                      ELSE details
    IN  IF MemberOfRequest(details) = None
        THEN [details |-> details, thrown |-> None]
        ELSE IF resp.kind = "reject" \/ resp.hasIssue
             THEN [details |-> [withResult EXCEPT !.evaluationCompleted = TRUE],
                   thrown |-> Some(failed)]
             ELSE [details |-> withResult, thrown |-> None]

\* memberOfAsync: the details after the call and the outcome it throws, if any
memberOfAsync(details, resp) ==
    LET key == createIndexKeyMemberOf(details.value, details.valueSet)
        failed == CreateOperationOutcome("error", "exception",
                      "Failed to check membership: " \o JsStr(key))
        withResult == IF resp.hasResult
                      THEN [details EXCEPT !.evaluationCompleted = TRUE,
                                           !.result = resp.valueBoolean]
                      ELSE details
    IN  IF MemberOfRequest(details) = None
        THEN [details |-> details, thrown |-> None]
        ELSE IF resp.kind = "reject"
             THEN [details |-> [details EXCEPT !.evaluationCompleted = TRUE],
                   thrown |-> Some(failed)]
             ELSE IF resp.hasIssue
                  THEN [details |-> [withResult EXCEPT !.evaluationCompleted = TRUE],
                        thrown |-> Some(failed)]
                  ELSE [details |-> withResult, thrown |-> None]

\* details.asyncFunction(outcome, details) with the answer the server gives
AsyncFunction(details, resp) ==
    IF details.asyncFunction = "resolveAsync"
    THEN resolveAsync(details, resp)
    ELSE memberOfAsync(details, resp)

Responses(details) ==
    IF details.asyncFunction = "resolveAsync" THEN ResolveResponses ELSE MemberOfResponses

----------------------------------------------------------------------------
(* The driver: evaluateFhirpathAsync *)

VARIABLES
    pc,                       \* where the driver is: "top" of the do/while body,
                              \* "await" (in Promise.all), "pass" (before
                              \* fhirpath.evaluate), "done" (returned), "failed" (rejected)
    iterations,               \* let iterations
    asyncCallsRequired,       \* the registry
    requiresAsyncProcessing,  \* let requiresAsyncProcessing
    results,                  \* let results
    asyncPromises,            \* the batch of the latest Resolve phase: the map
                              \* positions of the details handed to the adapters
    inflight,                 \* positions whose adapter call has not settled
    failure,                  \* the outcome the driver rejected with, if any
    \* history of the run, read by the properties only
    called,                   \* fingerprints handed to their adapter at least once
    recalled,                 \* fingerprints handed to their adapter more than once
    resolvePhases,            \* the iterations that entered a Resolve phase
    rejected,                 \* fingerprints whose adapter call threw
    lastReturns,              \* latest pass: fingerprint -> the values its call
                              \* sites received, in the order of the sites
    lastPending,              \* latest pass: fingerprints it left not completed
    lastOutput,               \* latest pass: what fhirpath.evaluate returned, if it returned
    intercepted,              \* some pass invoked resolve() or memberOf()
    allIncomplete,            \* every pass so far ended with requiresAsyncProcessing set
    evalThrew,                \* some pass raised an error
    \* the surroundings of the evaluation
    expr,                     \* the expression parameter: what its passes reach
    server,                   \* how the servers behind the adapters answer
    debugAsyncFhirpath,       \* export var debugAsyncFhirpath
    outcome,                  \* let outcome: the issues logged by this evaluation
    settled,                  \* the fingerprints whose calls settled, in settling
                              \* order (kept when the servers' answers are fixed)
    firstRun,                 \* what an earlier evaluation of the same inputs did
    other,                    \* the locals of a second, concurrent evaluation
    probe                     \* a function of the repository applied on its own,
                              \* outside an evaluation: its arguments and what it gave

vars == <<pc, iterations, asyncCallsRequired, requiresAsyncProcessing, results,
          asyncPromises, inflight, failure, called, recalled, resolvePhases, rejected,
          lastReturns, lastPending, lastOutput, intercepted,
          allIncomplete, evalThrew, expr, server, debugAsyncFhirpath, outcome,
          settled, firstRun, other, probe>>

history == <<called, recalled, resolvePhases, rejected, lastReturns, lastPending,
             lastOutput,
             intercepted, allIncomplete, evalThrew>>

\* what no step of one evaluation changes
surroundings == <<expr, server, debugAsyncFhirpath, firstRun, other, probe>>

\* an expression parameter left open: every pass may reach any call sites
AnyExpr == [free |-> TRUE, sites |-> <<>>, on |-> None, more |-> <<>>, throw |-> "none"]

\* servers left open: every call may get any answer
AnyServer ==
    [free |-> TRUE, resolve |-> "json",
     memberOf |-> [kind |-> "json", hasResult |-> TRUE, valueBoolean |-> Some("true"),
                   hasIssue |-> FALSE]]

\* the locals of an evaluation that has not registered anything
NoLocals == [asyncCallsRequired |-> <<>>, requiresAsyncProcessing |-> FALSE]

\* the locals of evaluateFhirpathAsync when the function is entered
InitRun ==
    /\ pc = "top"
    /\ iterations = 0
    /\ asyncCallsRequired = <<>>
    /\ requiresAsyncProcessing = FALSE
    /\ results = <<>>
    /\ asyncPromises = <<>>
    /\ inflight = {}
    /\ failure = None
    /\ called = {}
    /\ recalled = {}
    /\ resolvePhases = {}
    /\ rejected = {}
    /\ lastReturns = <<>>
    /\ lastPending = {}
    /\ lastOutput = None
    /\ intercepted = FALSE
    /\ allIncomplete = TRUE
    /\ evalThrew = FALSE
    /\ outcome = <<>>
    /\ settled = <<>>

\* one evaluation of any expression against any servers, with the trace
\* messages switched off
Init ==
    /\ InitRun
    /\ expr = AnyExpr
    /\ server = AnyServer
    /\ debugAsyncFhirpath = FALSE
    /\ firstRun = None
    /\ other = NoLocals
    /\ probe = None

\* an iteration that is not counted
NextIterationStuck(i) == i

\* iterations++
NextIteration(i) == i + 1

\* a batch filter that hands every record of the registry to its adapter
NotCompletedEvery(m, i) == [ j \in 1..(Len(m) - i + 1) |-> i + j - 1 ]

\* a Resolve phase that hands over the first record not completed only
NotCompletedFirst(m, i) ==
    IF \E j \in i..Len(m) : ~m[j].details.evaluationCompleted
    THEN << CHOOSE j \in i..Len(m) :
               /\ ~m[j].details.evaluationCompleted
               /\ \A o \in i..(j - 1) : m[o].details.evaluationCompleted >>
    ELSE <<>>

\* the positions of the records the Resolve phase hands to their adapters,
\* in the order of the map's keys
RECURSIVE NotCompleted(_, _)
NotCompleted(m, i) ==
    IF i > Len(m) THEN <<>>
    ELSE (IF ~m[i].details.evaluationCompleted THEN <<i>> ELSE <<>>)
         \o NotCompleted(m, i + 1)

\* the fingerprints of the calls of a batch, and those that occur in it twice
BatchKeys(m, batch) == { m[batch[j]].key : j \in 1..Len(batch) }

BatchTwice(m, batch) ==
    { m[batch[j]].key : j \in { n \in 1..Len(batch) :
                                  \E o \in 1..Len(batch) :
                                      o # n /\ m[batch[o]].key = m[batch[n]].key } }

\* a loop test that asks the registry filled by the earlier passes
LoopAgainRegistry(req, i) == Len(asyncCallsRequired) > 0 /\ i < MaxIterations

\* the loop test with the bound off by one
LoopAgainInclusive(req, i) == req /\ i <= MaxIterations

\* the loop test without the flag of the pass
LoopAgainAlways(req, i) == i < MaxIterations

\* while (requiresAsyncProcessing && iterations < 10)
LoopAgain(req, i) == req /\ i < MaxIterations

\* logMessage: with the toggle on, one more information issue in the outcome
logMessage(debug, o, text, arg) ==
    IF debug
    THEN Append(o, [severity |-> "information", text |-> text, arg |-> arg])
    ELSE o

\* the messages of the loop that builds the batch
RECURSIVE LogBatch(_, _, _)
LogBatch(o, m, batch) ==
    IF batch = <<>> THEN o
    ELSE LogBatch(logMessage(debugAsyncFhirpath, o, "  performing async request for: ",
                             m[Head(batch)].key),
                  m, Tail(batch))

\* the messages of the handlers invoked by one pass over the registry m
RECURSIVE LogHandlers(_, _, _)
LogHandlers(o, sites, m) ==
    IF sites = <<>> THEN o
    ELSE LET key == MapKey(Head(sites))
         IN  LogHandlers(IF key = None THEN o
                         ELSE IF IsCompleted(m, key[1])
                         THEN logMessage(debugAsyncFhirpath, o,
                                         "  using cached result for: ", key[1])
                         ELSE logMessage(debugAsyncFhirpath, o,
                                         "  requires async evaluation for: ", key[1]),
                         Tail(sites), m)

\* the messages of one pass: the one before fhirpath.evaluate and those of
\* the handlers (none of them adds anything with the toggle off)
PassLog(o, sites, m) ==
    IF debugAsyncFhirpath
    THEN LogHandlers(logMessage(debugAsyncFhirpath, o, "performing iteration: ",
                                ToString(iterations)),
                     sites, m)
    ELSE o

\* an evaluator failure that carries the issues logged so far
EvaluatorFailureLogged(o, message) ==
    [severity |-> "fatal", code |-> "exception", text |-> message, issue |-> o]

\* what the driver throws when fhirpath.evaluate raised an error with a message
EvaluatorFailure(o, message) == CreateOperationOutcome("fatal", "exception", message)

\* the call sites a pass of the expression e reaches over the registry m: its
\* own, and those behind a call whose result is available
ExprSites(e, m) ==
    e.sites \o (IF e.on # None /\ IsCompleted(m, e.on[1])
                              /\ MapGet(m, e.on[1])[1].result # None
                THEN e.more ELSE <<>>)

\* the call sites the next pass may reach
PassSites == IF expr.free THEN SiteSeqs ELSE { ExprSites(expr, asyncCallsRequired) }

\* the ways the next pass may end
PassThrows == IF expr.free THEN Throws ELSE { expr.throw }

\* the answers the server may give to the call for details
Answers(details) ==
    IF server.free THEN Responses(details)
    ELSE IF details.asyncFunction = "resolveAsync" THEN { server.resolve }
    ELSE { server.memberOf }

\* the settling order after the call for fingerprint k settled
Settling(order, k) == IF server.free THEN order ELSE Append(order, k)

\* the top of the do/while body: count the iteration and, when the registry
\* is not empty, start one adapter call for every record not completed
LoopTop ==
    /\ pc = "top"
    /\ iterations' = NextIteration(iterations)
    /\ IF Len(asyncCallsRequired) > 0
       THEN LET batch == NotCompleted(asyncCallsRequired, 1)
            IN  /\ asyncPromises' = batch
                /\ resolvePhases' = resolvePhases \cup { NextIteration(iterations) }
                /\ called' = called \cup BatchKeys(asyncCallsRequired, batch)
                /\ recalled' = recalled \cup (called \cap BatchKeys(asyncCallsRequired, batch))
                                         \cup BatchTwice(asyncCallsRequired, batch)
                /\ inflight' = { batch[j] : j \in 1..Len(batch) }
                /\ outcome' = LogBatch(outcome, asyncCallsRequired, batch)
                /\ IF Len(batch) > 0
                   THEN pc' = "await" /\ UNCHANGED requiresAsyncProcessing
                   ELSE pc' = "pass" /\ requiresAsyncProcessing' = FALSE
       ELSE /\ pc' = "pass"
            /\ UNCHANGED <<asyncPromises, resolvePhases, called, recalled, inflight,
                           requiresAsyncProcessing, outcome>>
    /\ UNCHANGED <<asyncCallsRequired, results, failure, rejected, lastReturns,
                   lastPending, lastOutput, intercepted, allIncomplete,
                   evalThrew, settled, surroundings>>

\* an adapter call that writes its completion and result to every record
\* still in flight, as if the calls of a batch shared one details object
AdapterFulfilsShared(i, resp) ==
    LET r == AsyncFunction(asyncCallsRequired[i].details, resp)
    IN  /\ i \in inflight
        /\ r.thrown = None
        /\ asyncCallsRequired' =
              [ j \in 1..Len(asyncCallsRequired) |->
                  IF j \in inflight
                  THEN [asyncCallsRequired[j] EXCEPT
                          !.details.evaluationCompleted = r.details.evaluationCompleted,
                          !.details.result = r.details.result]
                  ELSE asyncCallsRequired[j] ]
        /\ inflight' = inflight \ {i}
        /\ settled' = Settling(settled, asyncCallsRequired[i].key)
        /\ UNCHANGED <<pc, iterations, requiresAsyncProcessing, results, asyncPromises,
                       failure, history, outcome, surroundings>>

\* an adapter call settles without throwing: its promise is fulfilled
AdapterFulfils(i, resp) ==
    LET r == AsyncFunction(asyncCallsRequired[i].details, resp)
    IN  /\ i \in inflight
        /\ r.thrown = None
        /\ asyncCallsRequired' = [asyncCallsRequired EXCEPT ![i].details = r.details]
        /\ inflight' = inflight \ {i}
        /\ settled' = Settling(settled, asyncCallsRequired[i].key)
        /\ UNCHANGED <<pc, iterations, requiresAsyncProcessing, results, asyncPromises,
                       failure, history, outcome, surroundings>>

\* a rejected adapter call the driver swallows: the record is memoized as
\* completed with no result and the evaluation goes on
AdapterRejectsSwallowed(i, resp) ==
    LET r == AsyncFunction(asyncCallsRequired[i].details, resp)
    IN  /\ i \in inflight
        /\ r.thrown # None
        /\ asyncCallsRequired' = [asyncCallsRequired EXCEPT ![i].details = r.details]
        /\ inflight' = inflight \ {i}
        /\ rejected' = rejected \cup { asyncCallsRequired[i].key }
        /\ settled' = Settling(settled, asyncCallsRequired[i].key)
        /\ UNCHANGED <<pc, failure, iterations, requiresAsyncProcessing, results,
                       asyncPromises, called, recalled, resolvePhases, lastReturns,
                       lastPending, lastOutput, intercepted, allIncomplete, evalThrew,
                       outcome, surroundings>>

\* an adapter call throws: its promise is rejected, and Promise.all rejects
\* with the first rejection of the batch, which the driver does not catch
AdapterRejects(i, resp) ==
    LET r == AsyncFunction(asyncCallsRequired[i].details, resp)
    IN  /\ i \in inflight
        /\ r.thrown # None
        /\ asyncCallsRequired' = [asyncCallsRequired EXCEPT ![i].details = r.details]
        /\ inflight' = inflight \ {i}
        /\ rejected' = rejected \cup { asyncCallsRequired[i].key }
        /\ IF pc = "await"
           THEN pc' = "failed" /\ failure' = r.thrown
           ELSE UNCHANGED <<pc, failure>>
        /\ settled' = Settling(settled, asyncCallsRequired[i].key)
        /\ UNCHANGED <<iterations, requiresAsyncProcessing, results, asyncPromises,
                       called, recalled, resolvePhases, lastReturns, lastPending,
                       lastOutput, intercepted, allIncomplete, evalThrew,
                       outcome, surroundings>>

\* a join that lets the driver go on as soon as one call of the batch settled
AwaitAny ==
    /\ pc = "await"
    /\ Cardinality(inflight) < Len(asyncPromises)
    /\ requiresAsyncProcessing' = FALSE
    /\ pc' = "pass"
    /\ UNCHANGED <<iterations, asyncCallsRequired, results, asyncPromises, inflight,
                   failure, history, outcome, settled, surroundings>>

\* a join after which the driver returns the output of the earlier pass
AwaitAllReturn ==
    /\ pc = "await"
    /\ inflight = {}
    /\ requiresAsyncProcessing' = FALSE
    /\ pc' = "done"
    /\ UNCHANGED <<iterations, asyncCallsRequired, results, asyncPromises, inflight,
                   failure, history, outcome, settled, surroundings>>

\* a join that leaves the flag of the earlier pass set
AwaitAllKeepFlag ==
    /\ pc = "await"
    /\ inflight = {}
    /\ pc' = "pass"
    /\ UNCHANGED <<iterations, asyncCallsRequired, requiresAsyncProcessing, results,
                   asyncPromises, inflight, failure, history, outcome, settled,
                   surroundings>>

\* Promise.all is fulfilled: every call of the batch has settled
AwaitAll ==
    /\ pc = "await"
    /\ inflight = {}
    /\ requiresAsyncProcessing' = FALSE
    /\ pc' = "pass"
    /\ UNCHANGED <<iterations, asyncCallsRequired, results, asyncPromises, inflight,
                   failure, history, outcome, settled, surroundings>>

\* the subsequence of the values rets[j] whose call site has fingerprint k
RECURSIVE ReturnsOf(_, _, _)
ReturnsOf(k, sites, rets) ==
    IF sites = <<>> THEN <<>>
    ELSE (IF MapKey(Head(sites)) = Some(k) THEN <<Head(rets)>> ELSE <<>>)
         \o ReturnsOf(k, Tail(sites), Tail(rets))

\* the fingerprints of the call sites of a pass
SiteKeys(sites) ==
    { MapKey(sites[j])[1] : j \in { n \in 1..Len(sites) : MapKey(sites[n]) # None } }

\* one pass of fhirpath.evaluate over the expression, up to the loop test:
\* the evaluator reaches the call sites `sites' and ends normally, with an
\* error that has a message, or with one that has none
EvaluatePass(sites) ==
    LET st == RunHandlers(sites, [map |-> asyncCallsRequired, rets |-> <<>>, req |-> FALSE])
        req == requiresAsyncProcessing \/ st.req
        output == DirectOutput \o Defined(st.rets)
        logged == PassLog(outcome, sites, asyncCallsRequired)
    IN  /\ pc = "pass"
        /\ asyncCallsRequired' = st.map
        /\ requiresAsyncProcessing' = req
        /\ lastReturns' = [k \in SiteKeys(sites) |-> ReturnsOf(k, sites, st.rets)]
        /\ lastPending' = { k \in SiteKeys(sites) : ~IsCompleted(st.map, k) }
        /\ intercepted' = (intercepted \/ sites # <<>>)
        /\ allIncomplete' = (allIncomplete /\ req)
        /\ \E throw \in PassThrows :
              /\ results' = IF throw = "none" THEN output ELSE results
              /\ lastOutput' = IF throw = "none" THEN Some(output) ELSE None
              /\ evalThrew' = (evalThrew \/ throw # "none")
              /\ IF throw = "message"
                 THEN /\ pc' = "failed"
                      /\ failure' = Some(EvaluatorFailure(logged, "evaluator error"))
                      /\ outcome' = logged
                 ELSE /\ pc' = IF LoopAgain(req, iterations) THEN "top" ELSE "done"
                      /\ outcome' = IF ~LoopAgain(req, iterations) /\ iterations > 1
                                     THEN logMessage(debugAsyncFhirpath, logged,
                                                     "total iterations", ToString(iterations))
                                     ELSE logged
                      /\ UNCHANGED failure
        /\ UNCHANGED <<iterations, asyncPromises, inflight, called, recalled,
                       resolvePhases, rejected, settled, surroundings>>

Settle ==
    \E i \in inflight :
        \E resp \in Answers(asyncCallsRequired[i].details) :
            AdapterFulfils(i, resp) \/ AdapterRejects(i, resp)

Pass == pc = "pass" /\ \E sites \in PassSites : EvaluatePass(sites)

Next == LoopTop \/ Settle \/ AwaitAll \/ Pass

Spec == Init /\ [][Next]_vars

\* every synchronous step of the driver runs, and every started adapter call
\* eventually settles
FairSpec ==
    /\ Spec
    /\ WF_vars(LoopTop)
    /\ WF_vars(AwaitAll)
    /\ WF_vars(Pass)
    /\ WF_vars(Settle)

\* Two evaluations of the same inputs, one after the other

\* the expressions whose passes reach fixed call sites: some sites of their
\* own and, behind a resolve() whose resource is there, a memberOf()
Exprs ==
    { [free |-> FALSE, sites |-> s, on |-> None, more |-> <<>>, throw |-> t] :
        s \in SiteSeqs, t \in Throws }
    \cup
    { [free |-> FALSE, sites |-> s, on |-> MapKey(Head(s)),
       more |-> << CHOOSE c \in MemberOfCalls : MapKey(c) # None >>, throw |-> t] :
        s \in { x \in SiteSeqs : /\ x # <<>>
                                 /\ Head(x).fn = "resolve"
                                 /\ MapKey(Head(x)) # None },
        t \in Throws }

\* the servers that give every call of one adapter the same answer
Servers ==
    { [free |-> FALSE, resolve |-> r, memberOf |-> m] :
        r \in ResolveResponses, m \in MemberOfResponses }

\* what the caller of an evaluation can observe of it
Summary ==
    [pc |-> pc, iterations |-> iterations, called |-> called, results |-> results,
     failure |-> failure, debug |-> debugAsyncFhirpath, logged |-> Len(outcome),
     settled |-> settled]

InitTwoRuns ==
    /\ InitRun
    /\ expr \in Exprs
    /\ server \in Servers
    /\ debugAsyncFhirpath = TRUE
    /\ firstRun = None
    /\ other = NoLocals
    /\ probe = None

\* the caller evaluates the same expression on the same data once more, with
\* the toggle as it is or flipped: the function is entered with new locals
Restart ==
    /\ firstRun = None
    /\ pc \in { "done", "failed" }
    /\ inflight = {}
    /\ firstRun' = Some(Summary)
    /\ debugAsyncFhirpath' \in BOOLEAN
    /\ pc' = "top"
    /\ iterations' = 0
    /\ asyncCallsRequired' = <<>>
    /\ requiresAsyncProcessing' = FALSE
    /\ results' = <<>>
    /\ asyncPromises' = <<>>
    /\ inflight' = {}
    /\ failure' = None
    /\ called' = {}
    /\ recalled' = {}
    /\ resolvePhases' = {}
    /\ rejected' = {}
    /\ lastReturns' = <<>>
    /\ lastPending' = {}
    /\ lastOutput' = None
    /\ intercepted' = FALSE
    /\ allIncomplete' = TRUE
    /\ evalThrew' = FALSE
    /\ outcome' = <<>>
    /\ settled' = <<>>
    /\ UNCHANGED <<expr, server, other, probe>>

NextTwoRuns == LoopTop \/ Settle \/ AwaitAll \/ Pass \/ Restart

TwoRunSpec == InitTwoRuns /\ [][NextTwoRuns]_vars

\* Two evaluations at once: this one, in the variables of the driver, and
\* another one whose steps run while this one is suspended

\* locals that every invocation finds in the module instead of creating them
ClosureOfModule(evaluation) == "this"

\* the locals (asyncCallsRequired, requiresAsyncProcessing) the handlers and
\* adapter calls of an invocation work on: those that invocation created
ClosureOf(evaluation) == evaluation

\* the call sites the passes of the other evaluation reach
OtherSites == { <<c>> : c \in { d \in MemberOfCalls : MapKey(d) # None } }

\* this evaluation is not running: it has not been called yet or it awaits
\* its batch
Suspended == (pc = "top" /\ iterations = 0) \/ pc = "await"

\* the locals the other evaluation works on
OtherLocals ==
    IF ClosureOf("other") = "other" THEN other
    ELSE [asyncCallsRequired |-> asyncCallsRequired,
          requiresAsyncProcessing |-> requiresAsyncProcessing]

\* the other evaluation writes its locals
OtherWrites(locals) ==
    IF ClosureOf("other") = "other"
    THEN /\ other' = locals
         /\ UNCHANGED <<asyncCallsRequired, requiresAsyncProcessing>>
    ELSE /\ asyncCallsRequired' = locals.asyncCallsRequired
         /\ requiresAsyncProcessing' = locals.requiresAsyncProcessing
         /\ UNCHANGED other

\* a pass of the other evaluation: its handlers work on its registry
OtherPass ==
    /\ Suspended
    /\ \E sites \in OtherSites :
          LET st == RunHandlers(sites, [map |-> OtherLocals.asyncCallsRequired,
                                        rets |-> <<>>, req |-> FALSE])
          IN  OtherWrites([asyncCallsRequired |-> st.map,
                           requiresAsyncProcessing |-> st.req])
    /\ UNCHANGED <<pc, iterations, results, asyncPromises, inflight, failure, history,
                   outcome, settled, expr, server, debugAsyncFhirpath, firstRun, probe>>

\* an adapter call of the other evaluation settles on a record of its registry
OtherSettle ==
    /\ Suspended
    /\ LET m == OtherLocals.asyncCallsRequired
       IN  \E i \in 1..Len(m) :
              /\ ~m[i].details.evaluationCompleted
              /\ \E resp \in Responses(m[i].details) :
                    OtherWrites([OtherLocals EXCEPT
                                   !.asyncCallsRequired[i].details =
                                       AsyncFunction(m[i].details, resp).details])
    /\ UNCHANGED <<pc, iterations, results, asyncPromises, inflight, failure, history,
                   outcome, settled, expr, server, debugAsyncFhirpath, firstRun, probe>>

InitConcurrent ==
    /\ InitRun
    /\ expr \in Exprs
    /\ server = AnyServer
    /\ debugAsyncFhirpath = FALSE
    /\ firstRun = None
    /\ other = NoLocals
    /\ probe = None

NextConcurrent == LoopTop \/ Settle \/ AwaitAll \/ Pass \/ OtherPass \/ OtherSettle

ConcurrentSpec == InitConcurrent /\ [][NextConcurrent]_vars

----------------------------------------------------------------------------
(* Functions of the repository applied on their own *)

\* every variable of the driver: no evaluation runs while a function is
\* applied on its own
evaluation ==
    <<pc, iterations, asyncCallsRequired, requiresAsyncProcessing, results,
      asyncPromises, inflight, failure, history, outcome, settled, expr, server,
      debugAsyncFhirpath, firstRun, other>>

\* no evaluation has been started
NotEvaluating ==
    /\ InitRun
    /\ expr = AnyExpr
    /\ server = AnyServer
    /\ debugAsyncFhirpath = FALSE
    /\ firstRun = None
    /\ other = NoLocals

\* Two call sites on one registry: the handler registers call a, the adapter
\* of a's record answers, then the handler is applied to call b

InitKeys ==
    /\ NotEvaluating
    /\ probe \in { [pc |-> "enter", a |-> a, b |-> b, map |-> <<>>, keyA |-> None,
                    keyB |-> None, request |-> None, hit |-> FALSE, ret |-> None] :
                   a \in KeyCalls, b \in KeyCalls }

\* the handler of a.fn applied to the element of call a on an empty registry
FirstCall ==
    /\ probe.pc = "enter"
    /\ LET h == Handler(probe.a, <<>>)
       IN  probe' = [probe EXCEPT !.pc = IF h.req THEN "registered" ELSE "nokey",
                                  !.map = h.map,
                                  !.keyA = MapKey(probe.a)]
    /\ UNCHANGED evaluation

\* the adapter named in a's record is invoked and the server answers
AdapterCall ==
    /\ probe.pc = "registered"
    /\ LET details == probe.map[1].details
       IN  \E resp \in Responses(details) :
              LET r == AsyncFunction(details, resp)
              IN  probe' = [probe EXCEPT
                      !.pc = IF r.thrown = None THEN "answered" ELSE "failed",
                      !.map[1].details = r.details,
                      !.request = IF details.asyncFunction = "memberOfAsync"
                                  THEN MemberOfRequest(details)
                                  ELSE None]
    /\ UNCHANGED evaluation

\* the handler of b.fn applied to the element of call b in a later pass
SecondCall ==
    /\ probe.pc = "answered"
    /\ LET h == Handler(probe.b, probe.map)
       IN  probe' = [probe EXCEPT
               !.pc = "looked",
               !.map = h.map,
               !.keyB = MapKey(probe.b),
               !.hit = (MapKey(probe.b) # None /\ IsCompleted(probe.map, MapKey(probe.b)[1])),
               !.ret = h.ret]
    /\ UNCHANGED evaluation

NextKeys == FirstCall \/ AdapterCall \/ SecondCall

KeySpec == InitKeys /\ [][NextKeys]_vars

\* The toAge() function: dates are texts, sequences of characters

DigitChars == <<"0", "1", "2", "3", "4", "5", "6", "7", "8", "9">>

IsDigit(c) == \E i \in 1..10 : DigitChars[i] = c

DigitValue(c) == (CHOOSE i \in 1..10 : DigitChars[i] = c) - 1

\* a number printed with two and with four digits
Pad2(n) == << DigitChars[(n \div 10) + 1], DigitChars[(n % 10) + 1] >>

Pad4(n) == Pad2(n \div 100) \o Pad2(n % 100)

\* the text YYYY-MM-DD of three numbers, whether or not they are a date
DateText(y, m, d) == Pad4(y) \o <<"-">> \o Pad2(m) \o <<"-">> \o Pad2(d)

LeapYear(y) == (y % 4 = 0 /\ y % 100 # 0) \/ y % 400 = 0

DaysInMonth(y, m) ==
    IF m = 2 THEN (IF LeapYear(y) THEN 29 ELSE 28)
    ELSE IF m \in { 4, 6, 9, 11 } THEN 30 ELSE 31

\* the calendar day before a date
PrevDay(date) ==
    IF date.d > 1 THEN [date EXCEPT !.d = date.d - 1]
    ELSE IF date.m > 1
         THEN [y |-> date.y, m |-> date.m - 1, d |-> DaysInMonth(date.y, date.m - 1)]
         ELSE [y |-> date.y - 1, m |-> 12, d |-> 31]

\* an element handed to toAge(): a string, or an object such as a Reference,
\* with the text String() gives it
TextOf(s) == [t |-> "string", text |-> s]

AnObject ==
    [t |-> "object",
     text |-> <<"[", "o", "b", "j", "e", "c", "t", " ", "O", "b", "j", "e", "c", "t", "]">>]

\* /^\d{4}-\d{2}-\d{2}$/.test(dateString)
dateRegex(text) ==
    /\ Len(text) = 10
    /\ \A i \in { 1, 2, 3, 4, 6, 7, 9, 10 } : IsDigit(text[i])
    /\ text[5] = "-" /\ text[8] = "-"

\* new Date(dateString) for a text the regular expression accepts: the UTC
\* date, or None for an Invalid Date. A month outside 01..12 or a day outside
\* 01..31 is invalid; a day of 29..31 the month does not have is rejected by
\* a strict engine and carried into the next month by a lenient one
DateParse(text, lenient) ==
    LET y == 1000 * DigitValue(text[1]) + 100 * DigitValue(text[2])
             + 10 * DigitValue(text[3]) + DigitValue(text[4])
        m == 10 * DigitValue(text[6]) + DigitValue(text[7])
        d == 10 * DigitValue(text[9]) + DigitValue(text[10])
    IN  IF m < 1 \/ m > 12 \/ d < 1 \/ d > 31 THEN None
        ELSE IF d <= DaysInMonth(y, m) THEN Some([y |-> y, m |-> m, d |-> d])
        ELSE IF lenient THEN Some([y |-> y, m |-> m + 1, d |-> d - DaysInMonth(y, m)])
        ELSE None

\* date.toISOString().split('T')[0]
toISODate(date) == DateText(date.y, date.m, date.d)

isValidDateString(value, lenient) ==
    IF ~dateRegex(value.text) THEN FALSE
    ELSE LET date == DateParse(value.text, lenient)
         IN  IF date = None THEN FALSE
             ELSE value.text = toISODate(date[1])

\* getFullYear / getMonth / getDate of a Date made from a date-only text: the
\* text is midnight UTC, the getters give the local date, which west of
\* Greenwich is the day before
LocalDate(date, zone) == IF zone = "west" THEN PrevDay(date) ELSE date

\* birthdateToAge, with the local date `today' of new Date()
birthdateToAge(birthDate, today, zone, lenient) ==
    IF ~isValidDateString(birthDate, lenient) THEN None
    ELSE LET birth == LocalDate(DateParse(birthDate.text, lenient)[1], zone)
             age == today.y - birth.y
         IN  IF today.m < birth.m \/ (today.m = birth.m /\ today.d < birth.d)
             THEN Some(age - 1)
             ELSE Some(age)

\* a toAge() that registers its element for a Resolve phase, as resolve() does
toAgeRegistering(element, m, today, zone, lenient) ==
    [map |-> MapSet(m, "Resolve:toAge",
                    [evaluationCompleted |-> FALSE, asyncFunction |-> "resolveAsync",
                     value |-> Str("toAge"), valueSet |-> "", result |-> None]),
     ret |-> birthdateToAge(element, today, zone, lenient),
     req |-> TRUE]

\* userInvocationTable.toAge applied to one element: the map after the call,
\* the value returned for the element and whether the call set
\* requiresAsyncProcessing
toAge(element, m, today, zone, lenient) ==
    [map |-> m, ret |-> birthdateToAge(element, today, zone, lenient), req |-> FALSE]

\* the birth date texts: dates, and texts that are no date for their month,
\* their day or their form
BirthDates ==
    { TextOf(DateText(y, m, d)) :
        y \in { 2000, 2001 }, m \in { 0, 1, 2, 12, 13 }, d \in { 0, 1, 28, 29, 30, 31, 32 } }
    \cup { TextOf(<<"2", "0", "0", "0", "-", "1", "-", "0", "1">>),
           TextOf(<<"2", "0", "0", "0", "0", "1", "0", "1">>),
           TextOf(<<"2", "0", "0", "0", "/", "0", "1", "/", "0", "1">>),
           TextOf(<<"2", "0", "0", "0", "-", "0", "1", "-", "0", "1", "T">>),
           TextOf(<<>>),
           AnObject }

\* the local dates of the clock
Todays ==
    { [y |-> 2001, m |-> 1, d |-> 1], [y |-> 2001, m |-> 2, d |-> 28],
      [y |-> 2001, m |-> 12, d |-> 31], [y |-> 2002, m |-> 3, d |-> 1] }

\* the registries a pass may hold when it reaches toAge()
ToAgeRegistries == { <<>>, Handler(CHOOSE c \in ResolveCalls : TRUE, <<>>).map }

InitAge ==
    /\ NotEvaluating
    /\ probe \in { [pc |-> "enter", birthDate |-> b, today |-> t, zone |-> z,
                    lenient |-> l, map |-> m, mapAfter |-> m, ret |-> None,
                    output |-> <<>>, req |-> FALSE, again |-> FALSE] :
                   b \in BirthDates, t \in Todays, z \in { "west", "east" },
                   l \in BOOLEAN, m \in ToAgeRegistries }

\* a pass whose expression applies toAge() to one element, and the loop test
ToAgePass ==
    /\ probe.pc = "enter"
    /\ LET h == toAge(probe.birthDate, probe.map, probe.today, probe.zone, probe.lenient)
       IN  probe' = [probe EXCEPT !.pc = "passed",
                                  !.mapAfter = h.map,
                                  !.ret = h.ret,
                                  !.output = Defined(<<h.ret>>),
                                  !.req = h.req,
                                  !.again = LoopAgain(h.req, 1)]
    /\ UNCHANGED evaluation

AgeSpec == InitAge /\ [][ToAgePass]_vars

\* The variant of evaluateFhirpathAsync that takes the resource as a JSON
\* string (utils/fhirpath-async.ts), with its locals in the probe

\* the resourceJson texts: none, two documents, and two texts that are no JSON
ResourceJsons ==
    { "", "{\"resourceType\":\"Patient\"}", "null", "{\"resourceType\":", "<Patient/>" }

\* a JSON.parse that fails with an error whose message is empty
JsonParseNoMessage(text) ==
    IF text = "{\"resourceType\":\"Patient\"}"
    THEN [value |-> Some("Patient"), message |-> None]
    ELSE IF text = "null" THEN [value |-> Some("null"), message |-> None]
    ELSE [value |-> None, message |-> Some("")]

\* JSON.parse: the value of a JSON document, or the message of the
\* SyntaxError thrown for any other text
JsonParse(text) ==
    IF text = "{\"resourceType\":\"Patient\"}"
    THEN [value |-> Some("Patient"), message |-> None]
    ELSE IF text = "null" THEN [value |-> Some("null"), message |-> None]
    ELSE [value |-> None, message |-> Some("Unexpected token in JSON")]

\* createIndexKey of utils/fhirpath-async.ts
createIndexKey(value) ==
    IF value.t = "string" THEN value.s
    ELSE IF Truthy(value.code) THEN JsStr(value.system) \o "|" \o value.code[1]
    ELSE IF value.coding # None
         THEN JsStr(value.coding[1][1].system) \o "|" \o JsStr(value.coding[1][1].code)
    ELSE ""

\* the calls the variant's expression reaches
VariantCalls ==
    { [fn |-> "memberOf", value |-> v, valueSet |-> "VS1"] :
        v \in { Str("M"),
                Obj(None, Some("S"), Some("M"), None),
                Obj(None, None, None, Some(<< Coding("S", "M") >>)) } }

\* the memberOf handler of the variant applied to the elements of a pass
RECURSIVE VariantHandlers(_, _)
VariantHandlers(sites, st) ==
    IF sites = <<>> THEN st
    ELSE LET key == createIndexKey(Head(sites).value) \o " - " \o Head(sites).valueSet
             cached == MapHas(st.map, key) /\ st.map[MapIndex(st.map, key)].details # None
         IN  VariantHandlers(Tail(sites),
                 IF cached
                 THEN [st EXCEPT !.rets = Append(st.rets, st.map[MapIndex(st.map, key)].details)]
                 ELSE [map |-> MapSet(st.map, key, None),
                       rets |-> Append(st.rets, None),
                       req |-> TRUE])

InitVariant ==
    /\ NotEvaluating
    /\ probe \in { [pc |-> "enter", resourceJson |-> j, sites |-> s, fhirData |-> "Patient",
                    iterations |-> 0, memberOfCallsRequired |-> <<>>,
                    requiresAsyncProcessing |-> FALSE, results |-> <<>>,
                    failure |-> None, passes |-> 0] :
                   j \in ResourceJsons, s \in SeqsUpTo(VariantCalls, MaxSites) }

\* the head of the function: the resource is parsed when a text is given
ParseResource ==
    /\ probe.pc = "enter"
    /\ IF probe.resourceJson = ""
       THEN probe' = [probe EXCEPT !.pc = "top"]
       ELSE LET parsed == JsonParse(probe.resourceJson)
            IN  IF parsed.value # None
                THEN probe' = [probe EXCEPT !.pc = "top", !.fhirData = parsed.value[1]]
                ELSE IF Truthy(parsed.message)
                THEN probe' = [probe EXCEPT
                                 !.pc = "failed",
                                 !.failure = Some(CreateOperationOutcome(
                                                "fatal", "exception", parsed.message[1]))]
                ELSE probe' = [probe EXCEPT !.pc = "top"]
    /\ UNCHANGED evaluation

\* the top of the do/while body: every key without value gets the value true
VariantLoopTop ==
    /\ probe.pc = "top"
    /\ LET m == probe.memberOfCallsRequired
       IN  probe' = [probe EXCEPT
               !.pc = "pass",
               !.iterations = probe.iterations + 1,
               !.memberOfCallsRequired =
                   [ i \in 1..Len(m) |->
                       IF m[i].details = None
                       THEN [m[i] EXCEPT !.details = Some("true")] ELSE m[i] ],
               !.requiresAsyncProcessing =
                   IF Len(m) > 0 THEN FALSE ELSE probe.requiresAsyncProcessing]
    /\ UNCHANGED evaluation

\* fhirpath.evaluate over the expression, up to the loop test
VariantPass ==
    /\ probe.pc = "pass"
    /\ \E throw \in Throws :
          LET st == VariantHandlers(probe.sites,
                                    [map |-> probe.memberOfCallsRequired, rets |-> <<>>,
                                     req |-> probe.requiresAsyncProcessing])
          IN  probe' = [probe EXCEPT
                  !.passes = probe.passes + 1,
                  !.memberOfCallsRequired = st.map,
                  !.requiresAsyncProcessing = st.req,
                  !.results = IF throw = "none" THEN st.rets ELSE probe.results,
                  !.failure = IF throw = "message"
                              THEN Some(CreateOperationOutcome("fatal", "exception",
                                                               "evaluator error"))
                              ELSE None,
                  !.pc = IF throw = "message" THEN "failed"
                         ELSE IF st.req /\ probe.iterations < MaxIterations THEN "top"
                         ELSE "done"]
    /\ UNCHANGED evaluation

NextVariant == ParseResource \/ VariantLoopTop \/ VariantPass

VariantSpec == InitVariant /\ [][NextVariant]_vars

TypeOK ==
    /\ pc \in { "top", "await", "pass", "done", "failed" }
    /\ iterations \in 0..MaxIterations
    /\ requiresAsyncProcessing \in BOOLEAN
    /\ inflight \subseteq 1..Len(asyncCallsRequired)

----------------------------------------------------------------------------
(* Properties *)

\* the positions of the latest batch that hold fingerprint k
BatchPositions(k) ==
    { j \in 1..Len(asyncPromises) : asyncCallsRequired[asyncPromises[j]].key = k }

\* the driver is between a pass and what follows it
AfterPass == pc \in { "top", "done" } /\ iterations >= 1

\* C1: over one top-level evaluation the adapter function is invoked at most
\* once for every fingerprint, also when an adapter call returns without
\* raising an error and without completing its record.
C1_AdapterAtMostOnce == recalled = {}

\* C2: when a pass reaches one fingerprint from several call sites, the
\* following Resolve phase starts exactly one adapter call for it, and in
\* every pass all call sites of one fingerprint receive the same value, which
\* is the memoized result once the record is completed.
C2_OneCallSameResult ==
    /\ pc = "await" =>
          \A k \in lastPending : Cardinality(BatchPositions(k)) = 1
    /\ \A k \in DOMAIN lastReturns :
          \A a, b \in 1..Len(lastReturns[k]) : lastReturns[k][a] = lastReturns[k][b]
    /\ AfterPass =>
          \A k \in DOMAIN lastReturns :
             IsCompleted(asyncCallsRequired, k) =>
                \A a \in 1..Len(lastReturns[k]) :
                   lastReturns[k][a] = MapGet(asyncCallsRequired, k)[1].result

\* C2 witness: a fingerprint reached from two call sites of one pass was
\* handed to its adapter, and both sites of a later pass received its result.
C2_Witness ==
    /\ AfterPass
    /\ \E k \in DOMAIN lastReturns :
          /\ Len(lastReturns[k]) > 1
          /\ lastReturns[k][1] # None
          /\ k \in called

\* C3: when the driver reaches the bound of 10 passes and the last pass was
\* still incomplete, it does not return a result list as it does for a
\* converged evaluation.
C3_BoundIsReported ==
    ~(pc = "done" /\ iterations = MaxIterations /\ requiresAsyncProcessing)

\* C4: the driver never runs more than 10 passes nor more than 9 Resolve
\* phases, and when every pass left a fingerprint not completed it returns
\* after exactly 10 passes and exactly 9 Resolve phases.
C4_StopsAtBound ==
    /\ iterations <= MaxIterations
    /\ Cardinality(resolvePhases) <= MaxIterations - 1
    /\ (pc = "top" => iterations < MaxIterations)
    /\ (pc = "done" /\ allIncomplete) =>
          iterations = MaxIterations /\ Cardinality(resolvePhases) = MaxIterations - 1

\* C4 witness: the driver has returned after ten passes that were all incomplete.
C4_Witness ==
    pc = "done" /\ allIncomplete /\ iterations = MaxIterations /\ intercepted

\* C5: provided every pass and every started adapter call finishes, the
\* driver eventually returns a result list or rejects, after at most 10 passes.
C5_Terminates == <>(pc \in { "done", "failed" } /\ iterations <= MaxIterations)

\* C5 witness: the driver has returned after the largest number of passes,
\* all adapter calls it started having settled.
C5_Witness ==
    pc = "done" /\ iterations = MaxIterations /\ called # {} /\ inflight = {}

\* C6: as long as no pass has invoked resolve() or memberOf(), the driver
\* runs one pass at most, enters no Resolve phase and starts no adapter call,
\* and it returns after exactly one pass with the output of that pass.
C6_NoInterceptedCall ==
    ~intercepted =>
        /\ iterations <= 1
        /\ resolvePhases = {}
        /\ called = {}
        /\ inflight = {}
        /\ asyncCallsRequired = <<>>
        /\ pc \in { "top", "pass", "done", "failed" }
        /\ (pc = "top" => iterations = 0)
        /\ (pc = "done" => iterations = 1)
        /\ (pc = "done" /\ lastOutput # None => results = lastOutput[1])

\* C6 witness: the driver has returned the evaluator's output of a pass that
\* invoked no interceptable function.
C6_Witness ==
    pc = "done" /\ ~intercepted /\ lastOutput = Some(DirectOutput) /\ results = DirectOutput

\* the map positions of the latest batch
BatchSet == { asyncPromises[j] : j \in 1..Len(asyncPromises) }

NamesCall(text, k) ==
    \E c \in Calls :
        /\ MapKey(c) = Some(k)
        /\ text = IF c.fn = "resolve"
                  THEN "Failed to resolve reference: " \o createIndexKeyResolve(c.value)[1]
                  ELSE "Failed to check membership: "
                       \o createIndexKeyMemberOf(c.value, c.valueSet)[1]

\* C8: once an adapter call has failed, the evaluation has failed (no pass
\* runs and no result list is returned), and the outcome delivered to the
\* caller is an adapter's error outcome naming a call that failed.
C8_AdapterFailureAborts ==
    /\ rejected # {} =>
          /\ pc = "failed"
          /\ failure # None
          /\ failure[1].severity = "error"
    /\ (failure # None /\ failure[1].severity = "error") =>
          \E k \in rejected : NamesCall(failure[1].text, k)

\* C8 witness: of two calls resolving concurrently one failed and the other
\* completed its record, and the evaluation has failed.
C8_Witness ==
    /\ pc = "failed"
    /\ Cardinality(rejected) = 1
    /\ Len(asyncPromises) = 2
    /\ inflight = {}
    /\ \E i \in BatchSet :
          /\ asyncCallsRequired[i].key \notin rejected
          /\ asyncCallsRequired[i].details.evaluationCompleted
          /\ asyncCallsRequired[i].details.result # None

\* C9: at the moment the evaluation fails or returns, no adapter call it
\* started is still in flight, and when an adapter call of a batch has failed
\* every record of that batch is completed.
C9_BatchSettledAtEnd ==
    /\ pc \in { "failed", "done" } => inflight = {}
    /\ rejected # {} =>
          \A i \in BatchSet : asyncCallsRequired[i].details.evaluationCompleted

\* C10: whenever a pass of the evaluator has raised an error, with or without
\* a message, the driver has failed with a fatal outcome.
C10_EvaluatorErrorFails ==
    evalThrew =>
        /\ pc = "failed"
        /\ failure # None
        /\ failure[1].severity = "fatal"

\* the registry keys the calls of the model can produce
CallKeys == { MapKey(c)[1] : c \in { d \in Calls : MapKey(d) # None } }

\* the number of values the call sites of the latest pass received
RECURSIVE CountDefined(_)
CountDefined(ks) ==
    IF ks = {} THEN 0
    ELSE LET k == CHOOSE x \in ks : TRUE
         IN  Len(Defined(lastReturns[k])) + CountDefined(ks \ {k})

\* C11: an element whose arguments yield no fingerprint adds no record, does
\* not mark the pass incomplete and contributes no value, and every element
\* with a fingerprint is answered from its completed record or registered as
\* pending, whatever the other elements of the pass are.
C11_FanOutIndependent ==
    /\ MapKeys(asyncCallsRequired) \subseteq CallKeys
    /\ AfterPass =>
          /\ requiresAsyncProcessing <=> lastPending # {}
          /\ \A k \in DOMAIN lastReturns :
                /\ MapHas(asyncCallsRequired, k)
                /\ IF k \in lastPending
                   THEN \A a \in 1..Len(lastReturns[k]) : lastReturns[k][a] = None
                   ELSE \A a \in 1..Len(lastReturns[k]) :
                           lastReturns[k][a] = MapGet(asyncCallsRequired, k)[1].result
          /\ lastOutput # None =>
                Len(lastOutput[1]) = Len(DirectOutput) + CountDefined(DOMAIN lastReturns)

\* C11 witness: the first pass of an expression handled an element without
\* fingerprint next to an element it registered as pending, and the registry
\* holds that element only.
C11_Witness ==
    /\ AfterPass /\ iterations = 1
    /\ \E j \in 1..Len(expr.sites) : MapKey(expr.sites[j]) = None
    /\ \E j \in 1..Len(expr.sites) :
          /\ MapKey(expr.sites[j]) # None
          /\ lastPending = { MapKey(expr.sites[j])[1] }
    /\ Len(asyncCallsRequired) = 1

\* every record of the registry is completed
AllCompleted ==
    \A i \in 1..Len(asyncCallsRequired) : asyncCallsRequired[i].details.evaluationCompleted

\* C12: when the second pass reaches exactly the fingerprints the first pass
\* registered and every adapter call of the one Resolve phase completed its
\* record, the evaluation takes exactly two passes and one Resolve phase: the
\* first pass gives its pending elements no value and asks for a Resolve
\* phase, the second gives every element the memoized result and is complete.
C12_TwoPassesOneResolve ==
    /\ (AfterPass /\ iterations = 1) =>
          /\ \A k \in DOMAIN lastReturns :
                \A a \in 1..Len(lastReturns[k]) : lastReturns[k][a] = None
          /\ lastOutput # None => lastOutput = Some(DirectOutput)
          /\ DOMAIN lastReturns # {} => pc = "top" /\ requiresAsyncProcessing
    /\ (AfterPass /\ iterations = 2 /\ AllCompleted
          /\ DOMAIN lastReturns = MapKeys(asyncCallsRequired)) =>
          /\ pc = "done"
          /\ ~requiresAsyncProcessing
          /\ resolvePhases = {2}
          /\ called = MapKeys(asyncCallsRequired) /\ recalled = {}
          /\ \A k \in DOMAIN lastReturns :
                \A a \in 1..Len(lastReturns[k]) :
                    lastReturns[k][a] = MapGet(asyncCallsRequired, k)[1].result
          /\ lastOutput # None =>
                /\ results = lastOutput[1]
                /\ Len(results) = Len(DirectOutput) + CountDefined(DOMAIN lastReturns)

\* C12 witness: the evaluation returned after two passes with the memoized
\* value true in its output.
C12_Witness ==
    /\ pc = "done" /\ iterations = 2 /\ AllCompleted
    /\ DOMAIN lastReturns = MapKeys(asyncCallsRequired)
    /\ results = DirectOutput \o <<"true">>

\* the positions of the records completed with an absent result
CompletedAbsent ==
    { i \in 1..Len(asyncCallsRequired) :
        /\ asyncCallsRequired[i].details.evaluationCompleted
        /\ asyncCallsRequired[i].details.result = None }

\* C13: a record completed with an absent result counts as completed: no
\* step changes it or starts an adapter call for it, and a pass that reaches
\* its fingerprint gives the element no value, does not register it again
\* and, when nothing else is pending, ends the evaluation.
C13_AbsentResultIsCompleted ==
    [][\A i \in CompletedAbsent :
          /\ Len(asyncCallsRequired') >= i
          /\ asyncCallsRequired'[i] = asyncCallsRequired[i]
          /\ i \notin inflight' \ inflight
          /\ (pc = "pass" /\ asyncCallsRequired[i].key \in DOMAIN lastReturns') =>
                LET k == asyncCallsRequired[i].key
                IN  /\ \A a \in 1..Len(lastReturns'[k]) : lastReturns'[k][a] = None
                    /\ k \notin lastPending'
                    /\ lastPending' = {} =>
                          ~requiresAsyncProcessing' /\ pc' \in { "done", "failed" }]_vars

\* C13 witness: the evaluation returned after a pass reached a record that is
\* completed with an absent result and was handed to its adapter once.
C13_Witness ==
    /\ pc = "done"
    /\ \E i \in CompletedAbsent :
          /\ asyncCallsRequired[i].key \in DOMAIN lastReturns
          /\ asyncCallsRequired[i].key \notin recalled

\* no two records of the registry have the same fingerprint
KeysDistinct ==
    \A i, j \in 1..Len(asyncCallsRequired) :
        asyncCallsRequired[i].key = asyncCallsRequired[j].key => i = j

\* C17: the registry holds at most one record per fingerprint, no step
\* removes a record or changes its fingerprint, and a completed record stays
\* completed: a handler never replaces it by a record that is not completed.
C17_RegistryInvariants ==
    /\ []KeysDistinct
    /\ [][/\ Len(asyncCallsRequired') >= Len(asyncCallsRequired)
          /\ \A i \in 1..Len(asyncCallsRequired) :
                /\ asyncCallsRequired'[i].key = asyncCallsRequired[i].key
                /\ asyncCallsRequired[i].details.evaluationCompleted =>
                      asyncCallsRequired'[i].details.evaluationCompleted]_vars

\* C17 witness: a pass reached a completed record and registered another
\* fingerprint next to it.
C17_Witness ==
    /\ AfterPass
    /\ Len(asyncCallsRequired) = 2
    /\ \E i, j \in 1..2 :
          /\ asyncCallsRequired[i].details.evaluationCompleted
          /\ asyncCallsRequired[i].key \in DOMAIN lastReturns
          /\ asyncCallsRequired[j].key \in lastPending

\* the positions of the completed records
Completed ==
    { i \in 1..Len(asyncCallsRequired) : asyncCallsRequired[i].details.evaluationCompleted }

\* C18: once a record is completed no step changes its result or starts an
\* adapter call for it, and every call site of a later pass that reaches its
\* fingerprint receives that result.
C18_CompletedIsFinal ==
    [][\A i \in Completed :
          /\ asyncCallsRequired'[i].details.result = asyncCallsRequired[i].details.result
          /\ i \notin inflight' \ inflight
          /\ (pc = "pass" /\ asyncCallsRequired[i].key \in DOMAIN lastReturns') =>
                \A a \in 1..Len(lastReturns'[asyncCallsRequired[i].key]) :
                    lastReturns'[asyncCallsRequired[i].key][a]
                        = asyncCallsRequired[i].details.result]_vars

\* C18 witness: a record completed with the value true by its one adapter
\* call was read by the third pass, after a second Resolve phase ran for
\* another record.
C18_Witness ==
    /\ pc = "done" /\ iterations = 3 /\ Len(asyncCallsRequired) = 2
    /\ \E i \in Completed :
          /\ asyncCallsRequired[i].details.result = Some("true")
          /\ asyncCallsRequired[i].key \in DOMAIN lastReturns
          /\ asyncCallsRequired[i].key \notin recalled

\* C19: the decision after a pass depends on that pass only: no flag of an
\* earlier pass is set when a pass begins, the driver goes on to a Resolve
\* phase exactly when the pass left a fingerprint without completed record
\* and fewer than ten passes have run, and it returns when the pass left
\* none, whatever the pass count and whatever earlier passes left pending.
C19_DecisionFromThisPass ==
    /\ pc = "pass" => ~requiresAsyncProcessing
    /\ AfterPass =>
          /\ requiresAsyncProcessing <=> lastPending # {}
          /\ pc = "top" <=> (lastPending # {} /\ iterations < MaxIterations)
          /\ lastPending = {} => pc = "done"

\* C19 witness: the driver returned after a later pass that left nothing
\* pending, while a record registered by an earlier pass is still not
\* completed.
C19_Witness ==
    /\ pc = "done" /\ iterations >= 2 /\ iterations < MaxIterations
    /\ lastPending = {}
    /\ ~AllCompleted

\* C20: no adapter call is started before the first pass; passes and Resolve
\* phases alternate, starting with a pass: every pass but the first is
\* preceded by exactly one Resolve phase, a Resolve phase is left only for a
\* pass or, when one of its calls failed, for the failure, and the driver
\* returns only out of a pass, so between passes and at the return the
\* number of Resolve phases is the number of passes minus one.
C20_PhaseOrdering ==
    /\ [](/\ iterations <= 1 => called = {} /\ inflight = {} /\ resolvePhases = {}
          /\ iterations >= 1 => resolvePhases = 2..iterations
          /\ AfterPass => Cardinality(resolvePhases) = iterations - 1)
    /\ [][/\ (pc = "top" /\ iterations = 0) => pc' = "pass"
          /\ (pc = "top" /\ iterations >= 1) => pc' = "await"
          /\ pc = "await" => pc' \in { "await", "pass", "failed" }
          /\ (pc = "await" /\ pc' = "failed") => rejected' # rejected
          /\ pc = "pass" => pc' \in { "top", "done", "failed" }
          /\ pc' = "done" => pc = "pass"]_vars

\* C20 witness: the driver returned out of its third pass after two Resolve
\* phases whose calls all succeeded.
C20_Witness ==
    /\ pc = "done" /\ iterations = 3
    /\ resolvePhases = {2, 3}
    /\ rejected = {}

\* the second of two evaluations of the same inputs has ended
BothEnded == firstRun # None /\ pc \in { "done", "failed" }

\* C15: two evaluations of the same data and expression against servers that
\* answer deterministically, each with a registry of its own and with the
\* same toggle, end the same way after the same number of passes, having
\* started adapter calls for the same fingerprints, and return the same
\* output, in whatever order the adapter calls of either run settle.
C15_Deterministic ==
    (BothEnded /\ firstRun[1].debug = debugAsyncFhirpath) =>
        /\ pc = firstRun[1].pc
        /\ iterations = firstRun[1].iterations
        /\ called = firstRun[1].called
        /\ pc = "done" => results = firstRun[1].results

\* C15 witness: both evaluations returned the same output holding resolved
\* values, and the two adapter calls of their Resolve phase settled in one
\* order in the first and in the other order in the second.
C15_Witness ==
    /\ BothEnded /\ pc = "done"
    /\ firstRun[1].debug = debugAsyncFhirpath
    /\ Len(settled) = 2 /\ settled # firstRun[1].settled
    /\ results = firstRun[1].results
    /\ Len(results) > Len(DirectOutput)

\* C16: the toggle debugAsyncFhirpath does not influence the evaluation: of
\* two evaluations of the same inputs against the same answers, one with the
\* toggle on and one with it off, both end the same way after the same number
\* of passes, having started adapter calls for the same fingerprints, with
\* the same output and, when their calls settled in the same order, with the
\* same failure.
C16_ToggleHasNoInfluence ==
    (BothEnded /\ firstRun[1].debug # debugAsyncFhirpath) =>
        /\ pc = firstRun[1].pc
        /\ iterations = firstRun[1].iterations
        /\ called = firstRun[1].called
        /\ pc = "done" => results = firstRun[1].results
        /\ (inflight = {} /\ settled = firstRun[1].settled) => failure = firstRun[1].failure

\* C16 witness: an evaluation that logged its trace messages and one that
\* logged none both failed in their Resolve phase with the same outcome.
C16_Witness ==
    /\ BothEnded /\ pc = "failed" /\ inflight = {}
    /\ firstRun[1].debug /\ ~debugAsyncFhirpath
    /\ firstRun[1].logged > 0 /\ outcome = <<>>
    /\ iterations = 2
    /\ failure # None /\ failure = firstRun[1].failure

\* the fingerprints of the call sites in s
KeysOf(s) == { MapKey(s[j])[1] : j \in { i \in 1..Len(s) : MapKey(s[i]) # None } }

\* the fingerprints the passes of this evaluation can reach
ExprKeys == KeysOf(expr.sites) \cup KeysOf(expr.more)

\* C14: two evaluations running at once each work on their own registry and
\* flag: a step of one leaves the registry, the flag, the adapter calls and
\* the results of the other unchanged, and the registry of each holds, and
\* its adapters are called for, the fingerprints of its own expression only.
C14_RegistryIsolation ==
    /\ [](/\ MapKeys(asyncCallsRequired) \subseteq ExprKeys
          /\ called \subseteq ExprKeys
          /\ \A s \in OtherSites : MapKeys(other.asyncCallsRequired) \subseteq KeysOf(s))
    /\ [][/\ UNCHANGED <<pc, iterations, inflight>> =>
                UNCHANGED <<asyncCallsRequired, requiresAsyncProcessing, results,
                            asyncPromises, failure, history, outcome, settled>>
          /\ ~UNCHANGED <<pc, iterations, inflight>> => UNCHANGED other]_vars

\* C14 witness: both evaluations hold a record for the same fingerprint, the
\* one of this evaluation completed with the value true and read by its
\* latest pass, the one of the other evaluation still pending.
C14_Witness ==
    /\ pc = "done"
    /\ other.requiresAsyncProcessing
    /\ \E i \in Completed : \E j \in 1..Len(other.asyncCallsRequired) :
          /\ asyncCallsRequired[i].key = other.asyncCallsRequired[j].key
          /\ asyncCallsRequired[i].details.result = Some("true")
          /\ asyncCallsRequired[i].key \in DOMAIN lastReturns
          /\ ~other.asyncCallsRequired[j].details.evaluationCompleted

\* C21: whenever a handler runs or has run in a pass that ended normally, no
\* record of the registry belongs to an adapter call that failed: a failure
\* ends the evaluation, so the record it completed with no result is never
\* read by a handler.
C21_FailureNotMemoized ==
    (pc = "pass" \/ AfterPass) =>
        \A i \in 1..Len(asyncCallsRequired) : asyncCallsRequired[i].key \notin rejected

\* C21 witness: an adapter call failed after one pass; its record is
\* completed with no result, the evaluation has failed, and the only pass
\* that ran gave the element no value because the record was pending.
C21_Witness ==
    /\ pc = "failed" /\ iterations = 2 /\ ~evalThrew
    /\ \E i \in 1..Len(asyncCallsRequired) :
          /\ asyncCallsRequired[i].key \in rejected
          /\ asyncCallsRequired[i].details.evaluationCompleted
          /\ asyncCallsRequired[i].details.result = None
          /\ asyncCallsRequired[i].key \in DOMAIN lastReturns

\* the first call site of `sites' whose fingerprint is k
FirstSite(sites, k) ==
    sites[CHOOSE j \in 1..Len(sites) :
             /\ MapKey(sites[j]) = Some(k)
             /\ \A n \in 1..(j - 1) : MapKey(sites[n]) # Some(k)]

\* C22: after a pass in which a fingerprint was reached more than once while
\* its record was not completed, the record still holds the call arguments of
\* the first registration: the later call sites left it unchanged.
C22_FirstRegistrationKept ==
    (AfterPass /\ iterations = 1 /\ ~expr.free) =>
        \A i \in 1..Len(asyncCallsRequired) :
            asyncCallsRequired[i].details.value
                = FirstSite(expr.sites, asyncCallsRequired[i].key).value

\* C23: the adapter calls of one batch are for pairwise distinct records, and
\* the settling of a call changes nothing of the registry but the completion
\* flag and the result of its own record, computed from that record's
\* arguments and the server's answer: the registry keeps its keys and its
\* length, and every other record stays as it was.
C23_AdapterFrame ==
    /\ [](\A a, b \in 1..Len(asyncPromises) :
            a # b => /\ asyncPromises[a] # asyncPromises[b]
                     /\ asyncCallsRequired[asyncPromises[a]].key
                           # asyncCallsRequired[asyncPromises[b]].key)
    /\ [][ (inflight' # inflight /\ inflight' \subseteq inflight) =>
             /\ Len(asyncCallsRequired') = Len(asyncCallsRequired)
             /\ \A j \in 1..Len(asyncCallsRequired) :
                   IF j \in inflight \ inflight'
                   THEN /\ asyncCallsRequired'[j].key = asyncCallsRequired[j].key
                        /\ asyncCallsRequired'[j].details.value
                              = asyncCallsRequired[j].details.value
                        /\ asyncCallsRequired'[j].details.valueSet
                              = asyncCallsRequired[j].details.valueSet
                        /\ asyncCallsRequired'[j].details.asyncFunction
                              = asyncCallsRequired[j].details.asyncFunction
                        /\ \E resp \in Responses(asyncCallsRequired[j].details) :
                              asyncCallsRequired'[j].details
                                 = AsyncFunction(asyncCallsRequired[j].details, resp).details
                   ELSE asyncCallsRequired'[j] = asyncCallsRequired[j] ]_vars

\* C23 witness: of two calls in one batch one has completed its record with
\* a result while the other is in flight with its record not completed.
C23_Witness ==
    /\ pc = "await" /\ Len(asyncPromises) = 2 /\ Cardinality(inflight) = 1
    /\ \E i \in BatchSet \ inflight :
          /\ asyncCallsRequired[i].details.evaluationCompleted
          /\ asyncCallsRequired[i].details.result # None
    /\ \A i \in inflight : ~asyncCallsRequired[i].details.evaluationCompleted

\* C26: when the driver has returned after fewer than ten passes, every
\* record of the registry is completed, the returned list is the output of
\* the last pass, and that pass left no fingerprint it reached without a
\* completed record.
C26_ReturnMeansAllAnswered ==
    (pc = "done" /\ iterations < MaxIterations) =>
        /\ AllCompleted
        /\ lastOutput = Some(results)
        /\ lastPending = {}

\* the declared shape of a memberOf() element: a bare code string, a Coding
\* (code, no coding list), a CodeableConcept (coding list, no code)
Shape(value) ==
    IF value.t = "string" THEN "code"
    ELSE IF Truthy(value.code) /\ value.coding = None THEN "Coding"
    ELSE IF value.code = None /\ value.coding # None THEN "CodeableConcept"
    ELSE "undeclared"

\* both calls of the probe are memberOf() calls on elements of a declared shape
TwoMemberOfCalls ==
    /\ probe # None
    /\ probe.a.fn = "memberOf" /\ Shape(probe.a.value) # "undeclared"
    /\ probe.b.fn = "memberOf" /\ Shape(probe.b.value) # "undeclared"

\* C24: two memberOf() calls have the same registry key exactly when they
\* have the same element (shape, code, system) and the same value set, and
\* a call site is answered from a completed record only when that record was
\* registered by the same logical call.
C24_FingerprintIdentifiesCall ==
    (TwoMemberOfCalls /\ probe.pc = "looked") =>
        /\ (probe.keyA = probe.keyB) <=> (probe.a = probe.b)
        /\ probe.hit => probe.a = probe.b

\* C27: a resolve() call and a memberOf() call never have the same registry
\* key, and the call site of the one is never answered from the record the
\* other registered: it finds no record and registers its own.
C27_NamespacesDisjoint ==
    (probe # None /\ probe.a.fn # probe.b.fn) =>
        /\ (probe.pc = "looked" /\ probe.keyB # None) =>
              /\ probe.keyA # probe.keyB
              /\ ~probe.hit
              /\ probe.ret = None
              /\ Len(probe.map) = 2
        /\ \A i \in 1..Len(probe.map) :
              probe.map[i].details.asyncFunction
                 = IF probe.map[i].key = JsStr(MapKey(probe.a))
                   THEN (IF probe.a.fn = "resolve" THEN "resolveAsync" ELSE "memberOfAsync")
                   ELSE (IF probe.b.fn = "resolve" THEN "resolveAsync" ELSE "memberOfAsync")

\* C27 witness: resolve('M - VS1') has fetched its resource and memberOf('VS1')
\* on the code 'M', whose fingerprint is the same text, was not answered
\* from that record.
C27_Witness ==
    /\ probe # None /\ probe.pc = "looked"
    /\ probe.a.fn = "resolve" /\ probe.b.fn = "memberOf"
    /\ createIndexKeyResolve(probe.a.value)
          = createIndexKeyMemberOf(probe.b.value, probe.b.valueSet)
    /\ probe.map[1].details.evaluationCompleted
    /\ probe.map[1].details.result # None
    /\ probe.ret = None

\* the adapter of a memberOf() record registered for an element of a declared
\* shape has been invoked
MemberOfInvoked ==
    /\ probe # None
    /\ probe.pc \in { "answered", "failed", "looked" }
    /\ probe.a.fn = "memberOf"
    /\ Shape(probe.a.value) # "undeclared"

\* C25: an invocation of memberOfAsync issues one request, encoded by the
\* shape of the stored value: a CodeableConcept as a POST with the value set
\* url and the codeable concept, a code string as a GET with url and code, a
\* Coding as a GET with url, system and code; and the record's key is the
\* fingerprint of that same shape, built from what the request carries.
C25_RequestFollowsShape ==
    MemberOfInvoked =>
        LET v == probe.a.value
            vs == probe.a.valueSet
        IN  /\ probe.request # None
            /\ Shape(v) = "CodeableConcept" =>
                  /\ probe.request[1] = [method |-> "POST", url |-> vs, system |-> None,
                                         code |-> None, codeableConcept |-> v.coding]
                  /\ probe.keyA = Some("MemberOf:" \o JoinCodings(v.coding[1])
                                                   \o " - " \o vs)
            /\ Shape(v) = "code" =>
                  /\ probe.request[1] = [method |-> "GET", url |-> vs, system |-> None,
                                         code |-> Some(v.s), codeableConcept |-> None]
                  /\ probe.keyA = Some("MemberOf:" \o v.s \o " - " \o vs)
            /\ Shape(v) = "Coding" =>
                  /\ probe.request[1] = [method |-> "GET", url |-> vs,
                                         system |-> IF v.system = None THEN Some("")
                                                    ELSE v.system,
                                         code |-> v.code, codeableConcept |-> None]
                  /\ probe.keyA = Some("MemberOf:" \o JsStr(v.system) \o "|" \o v.code[1]
                                                   \o " - " \o vs)

\* C25 witness: memberOfAsync was invoked for a CodeableConcept of two codings
\* and sent it in a POST; the server's answer completed the record.
C25_Witness ==
    /\ probe # None /\ probe.pc = "answered"
    /\ probe.a.fn = "memberOf"
    /\ Shape(probe.a.value) = "CodeableConcept"
    /\ Len(probe.a.value.coding[1]) = 2
    /\ probe.request # None /\ probe.request[1].method = "POST"
    /\ probe.map[1].details.evaluationCompleted

\* the (year, month, day) a text of the form YYYY-MM-DD names
Triple(text) ==
    [y |-> 1000 * DigitValue(text[1]) + 100 * DigitValue(text[2])
           + 10 * DigitValue(text[3]) + DigitValue(text[4]),
     m |-> 10 * DigitValue(text[6]) + DigitValue(text[7]),
     d |-> 10 * DigitValue(text[9]) + DigitValue(text[10])]

\* the element is a string of the form YYYY-MM-DD that names a day of the
\* calendar
IsCalendarDate(value) ==
    /\ value.t = "string"
    /\ dateRegex(value.text)
    /\ Triple(value.text).m \in 1..12
    /\ Triple(value.text).d \in 1..DaysInMonth(Triple(value.text).y, Triple(value.text).m)

\* toAge() has been applied to an element
ToAgeApplied == probe # None /\ probe.pc = "passed"

\* C28: toAge() is answered within the pass: the registry after the call is
\* the registry before it, the call does not set requiresAsyncProcessing and
\* the loop does not run again because of it; an element that is not a
\* calendar date written YYYY-MM-DD contributes nothing to the output, and
\* one that is contributes one age.
C28_ToAgeIsSynchronous ==
    ToAgeApplied =>
        /\ probe.mapAfter = probe.map
        /\ ~probe.req
        /\ ~probe.again
        /\ ~IsCalendarDate(probe.birthDate) => probe.output = <<>>
        /\ IsCalendarDate(probe.birthDate) => Len(probe.output) = 1

\* C28 witness: 2001-02-29, which a lenient engine parses as the first of
\* March, contributed nothing, and the pending record of the registry is as
\* it was.
C28_Witness ==
    /\ ToAgeApplied
    /\ probe.birthDate = TextOf(DateText(2001, 2, 29))
    /\ probe.lenient
    /\ probe.output = <<>>
    /\ Len(probe.map) = 1 /\ probe.mapAfter = probe.map

\* C30: for a birth date text that is a calendar date, the age is the
\* difference of the years of the current date and of the text, less one
\* exactly when the current (month, day) is before the text's (month, day);
\* it is not negative when the birth date is not after the current date.
C30_AgeFromTriples ==
    (ToAgeApplied /\ IsCalendarDate(probe.birthDate)) =>
        LET birth == Triple(probe.birthDate.text)
            today == probe.today
            before == today.m < birth.m \/ (today.m = birth.m /\ today.d < birth.d)
        IN  /\ probe.ret = Some((today.y - birth.y) - (IF before THEN 1 ELSE 0))
            /\ (birth.y < today.y \/ (birth.y = today.y /\ ~before)) => probe.ret[1] >= 0

\* C29: in the variant that takes the resource as a JSON string, a non-empty
\* text that is no JSON document makes the evaluation fail with a fatal
\* outcome before the loop: it never counts an iteration, runs a pass,
\* registers a key or returns a list.
C29_UnparsableResourceFails ==
    (probe # None /\ probe.resourceJson # ""
       /\ JsonParse(probe.resourceJson).value = None) =>
        /\ probe.pc \in { "enter", "failed" }
        /\ probe.iterations = 0
        /\ probe.passes = 0
        /\ probe.memberOfCallsRequired = <<>>
        /\ probe.pc = "failed" =>
              /\ probe.failure # None
              /\ probe.failure[1].severity = "fatal"

\* C29 witness: the text '<Patient/>' was given with an expression that
\* reaches memberOf(), and the evaluation has failed.
C29_Witness ==
    /\ probe # None /\ probe.resourceJson = "<Patient/>"
    /\ probe.sites # <<>>
    /\ probe.pc = "failed"
    /\ probe.failure[1].severity = "fatal"

====
